---- MODULE Spec2Model ----
(***************************************************************************)
(* Transaction-pool state flags (TxState), the sub-pool derived from them  *)
(* (SubPool::from) and the promotion comparator (SubPool::is_promoted) of  *)
(* crates/transaction-pool/src/pool/state.rs.                              *)
(*                                                                         *)
(* Spec       : one transaction whose TxState is changed by `|=` and       *)
(*              `remove`; after every change the sub-pool is re-derived    *)
(*              and compared with the previous one.                        *)
(* SenderSpec : the per-sender, nonce-ordered recomputation of the         *)
(*              ENOUGH_BALANCE / NO_NONCE_GAPS bits for three pooled       *)
(*              transactions, followed by SubPool::from.                   *)
(***************************************************************************)
EXTENDS Integers, Naturals, Sequences, FiniteSets, TLC

VARIABLES state, prev, subpool, prevPool, promoted, demoted, op, arg,
          balance, pooled, idx, cumulative, gapSeen, txState, txPool

txVars == <<state, prev, subpool, prevPool, promoted, demoted, op, arg>>
senderVars == <<balance, pooled, idx, cumulative, gapSeen, txState, txPool>>
vars == <<state, prev, subpool, prevPool, promoted, demoted, op, arg,
          balance, pooled, idx, cumulative, gapSeen, txState, txPool>>

(* ---------------- bounds of the sender scenario ---------------- *)
MaxCost == 2
MaxNonce == 3

(* ---------------- TxState: u8 bit set ---------------- *)
U8Bits == 8

RECURSIVE BitAndN(_, _, _)
BitAndN(a, b, n) ==
  IF n = 0 THEN 0
  ELSE ((a % 2) * (b % 2)) + 2 * BitAndN(a \div 2, b \div 2, n - 1)

RECURSIVE BitOrN(_, _, _)
BitOrN(a, b, n) ==
  IF n = 0 THEN 0
  ELSE (IF (a % 2) + (b % 2) > 0 THEN 1 ELSE 0) + 2 * BitOrN(a \div 2, b \div 2, n - 1)

RECURSIVE BitNotN(_, _)
BitNotN(a, n) ==
  IF n = 0 THEN 0
  ELSE (1 - (a % 2)) + 2 * BitNotN(a \div 2, n - 1)

BitAnd(a, b) == BitAndN(a, b, U8Bits)
BitOr(a, b) == BitOrN(a, b, U8Bits)
BitNot(a) == BitNotN(a, U8Bits)

ENOUGH_FEE_CAP_PROTOCOL == 32
NO_NONCE_GAPS == 16
ENOUGH_BALANCE == 8
NOT_TOO_MUCH_GAS == 4
ENOUGH_FEE_CAP_BLOCK == 2
IS_LOCAL == 1

BASE_FEE_POOL_BITS ==
  BitOr(BitOr(BitOr(ENOUGH_FEE_CAP_PROTOCOL, NO_NONCE_GAPS), ENOUGH_BALANCE), NOT_TOO_MUCH_GAS)

QUEUED_POOL_BITS_NonceBit == NO_NONCE_GAPS
QUEUED_POOL_BITS == ENOUGH_FEE_CAP_PROTOCOL

\* the six single-bit flags
NamedFlags ==
  {ENOUGH_FEE_CAP_PROTOCOL, NO_NONCE_GAPS, ENOUGH_BALANCE, NOT_TOO_MUCH_GAS,
   ENOUGH_FEE_CAP_BLOCK, IS_LOCAL}

\* TxState::all(): union of every declared constant
AllBits ==
  BitOr(BitOr(BitOr(BASE_FEE_POOL_BITS, QUEUED_POOL_BITS), ENOUGH_FEE_CAP_BLOCK), IS_LOCAL)

\* every value a TxState can hold
TxStates == {v \in 0..(2^U8Bits - 1) : BitAnd(v, BitNot(AllBits)) = 0}

\* #[derive(Default)]
Default == 0

\* `self |= other`
bitor_Add(self, other) == (self + other) % (2^U8Bits)
bitor_Toggle(self, other) == BitAnd(BitOr(self, other), BitNot(BitAnd(self, other)))
bitor(self, other) == BitOr(self, other)

\* `self.remove(other)`
remove(self, other) == BitAnd(self, BitNot(other))

\* `self.intersects(other)`
intersects(self, other) == BitAnd(self, other) # 0

(* ---------------- SubPool: #[repr(u8)] enum ---------------- *)
Queued == 0
Pending == 1
BaseFee == 2

SubPools == {Queued, Pending, BaseFee}

\* derived PartialOrd/Ord compare the discriminants
is_promoted_Ge(self, other) == self >= other
is_promoted(self, other) == self > other

\* impl From<TxState> for SubPool
SubPoolFrom_Ge(value) ==
  IF value >= BASE_FEE_POOL_BITS THEN Pending
  ELSE IF value < QUEUED_POOL_BITS THEN Queued
  ELSE BaseFee
SubPoolFrom_Le(value) ==
  IF value > BASE_FEE_POOL_BITS THEN Pending
  ELSE IF value <= QUEUED_POOL_BITS THEN Queued
  ELSE BaseFee
SubPoolFrom_Cast(value) == value \div 16
SubPoolFrom(value) ==
  IF value > BASE_FEE_POOL_BITS THEN Pending
  ELSE IF value < QUEUED_POOL_BITS THEN Queued
  ELSE BaseFee

(* ---------------- Spec: one transaction ---------------- *)
SenderIdle ==
  /\ balance = 0
  /\ pooled = <<>>
  /\ idx = 0
  /\ cumulative = 0
  /\ gapSeen = FALSE
  /\ txState = <<>>
  /\ txPool = <<>>

Init ==
  /\ state = Default
  /\ prev = Default
  /\ subpool = SubPoolFrom(Default)
  /\ prevPool = SubPoolFrom(Default)
  /\ promoted = FALSE
  /\ demoted = FALSE
  /\ op = "init"
  /\ arg = Default
  /\ SenderIdle

\* re-derive the sub-pool of the new flags and compare it with the old one
Derive(new) ==
  /\ state' = new
  /\ prev' = state
  /\ subpool' = SubPoolFrom(new)
  /\ prevPool' = subpool
  /\ promoted' = is_promoted(SubPoolFrom(new), subpool)
  /\ demoted' = is_promoted(subpool, SubPoolFrom(new))

BitOrAssign(other) ==
  /\ Derive(bitor(state, other))
  /\ op' = "insert"
  /\ arg' = other
  /\ UNCHANGED senderVars

Remove(other) ==
  /\ Derive(remove(state, other))
  /\ op' = "remove"
  /\ arg' = other
  /\ UNCHANGED senderVars

Next ==
  \/ \E other \in TxStates : BitOrAssign(other)
  \/ \E other \in TxStates : Remove(other)

Spec == Init /\ [][Next]_vars

(* ---------------- SenderSpec: nonce-ordered recomputation ---------------- *)
\* bits that do not depend on the sender's other transactions
StaticStates == {v \in TxStates : BitAnd(v, BitOr(NO_NONCE_GAPS, ENOUGH_BALANCE)) = 0}

TxIdle ==
  /\ state = Default
  /\ prev = Default
  /\ subpool = SubPoolFrom(Default)
  /\ prevPool = SubPoolFrom(Default)
  /\ promoted = FALSE
  /\ demoted = FALSE
  /\ op = "init"
  /\ arg = Default

\* on-chain nonce 0; the balance covers exactly the first two transactions
InitSender ==
  /\ TxIdle
  /\ \E c1, c2, c3 \in 1..MaxCost, n3 \in 2..MaxNonce, s1, s2, s3 \in StaticStates :
       /\ balance = c1 + c2
       /\ pooled = << [nonce |-> 0, cost |-> c1, static |-> s1],
                      [nonce |-> 1, cost |-> c2, static |-> s2],
                      [nonce |-> n3, cost |-> c3, static |-> s3] >>
  /\ idx = 0
  /\ cumulative = 0
  /\ gapSeen = FALSE
  /\ txState = <<>>
  /\ txPool = <<>>

FoldStep ==
  /\ idx < Len(pooled)
  /\ LET tx == pooled[idx + 1]
         expected == IF idx = 0 THEN 0 ELSE pooled[idx].nonce + 1
         gap == gapSeen \/ tx.nonce # expected
         cum == cumulative + tx.cost
         s0 == tx.static
         s1 == IF gap THEN s0 ELSE bitor(s0, NO_NONCE_GAPS)
         s2 == IF cum <= balance THEN bitor(s1, ENOUGH_BALANCE) ELSE s1
     IN /\ gapSeen' = gap
        /\ cumulative' = cum
        /\ txState' = Append(txState, s2)
        /\ txPool' = Append(txPool, SubPoolFrom(s2))
  /\ idx' = idx + 1
  /\ UNCHANGED <<balance, pooled>>
  /\ UNCHANGED txVars

NextSender == FoldStep

SenderSpec == InitSender /\ [][NextSender]_vars

(* ======================= properties ======================= *)
\* the priority ranking Queued < BaseFeePool < Pending
Rank(p) == IF p = Queued THEN 0 ELSE IF p = BaseFee THEN 1 ELSE 2

Has(s, f) == intersects(s, f)

\* C1: a re-derivation is reported as a promotion exactly when the new
\* sub-pool ranks strictly above the old one under Queued < BaseFee < Pending
\* (so BaseFee -> Pending is a promotion and Pending -> BaseFee is not).
C1_PromotionFollowsRank ==
  promoted <=> (Rank(subpool) > Rank(prevPool))

\* C2: the derived sub-pool is Pending iff the four base bits are all set
\* and at least one of ENOUGH_FEE_CAP_BLOCK, IS_LOCAL is set.
C2_PendingIffBaseAndBlockOrLocal ==
  (subpool = Pending) <=>
    ( /\ Has(state, ENOUGH_FEE_CAP_PROTOCOL)
      /\ Has(state, NO_NONCE_GAPS)
      /\ Has(state, ENOUGH_BALANCE)
      /\ Has(state, NOT_TOO_MUCH_GAS)
      /\ (Has(state, ENOUGH_FEE_CAP_BLOCK) \/ Has(state, IS_LOCAL)) )

C2_Witness ==
  /\ state = 61
  /\ ~Has(state, ENOUGH_FEE_CAP_BLOCK)
  /\ subpool = Pending

\* C3: whenever ENOUGH_FEE_CAP_PROTOCOL is unset the sub-pool is Queued, and
\* removing ENOUGH_FEE_CAP_PROTOCOL from any flags yields Queued.
C3_ProtocolFloorVeto ==
  /\ ~Has(state, ENOUGH_FEE_CAP_PROTOCOL) => subpool = Queued
  /\ (op = "remove" /\ Has(arg, ENOUGH_FEE_CAP_PROTOCOL)) => subpool = Queued

C3_Witness ==
  /\ op = "remove"
  /\ arg = ENOUGH_FEE_CAP_PROTOCOL
  /\ prev = 63
  /\ state = 31
  /\ prevPool = Pending
  /\ subpool = Queued

\* C4: the sub-pool is BaseFee iff ENOUGH_FEE_CAP_PROTOCOL is set and either
\* one of NO_NONCE_GAPS, ENOUGH_BALANCE, NOT_TOO_MUCH_GAS is unset, or all
\* three are set and both ENOUGH_FEE_CAP_BLOCK and IS_LOCAL are unset;
\* in particular 32 and 60 are BaseFee.
C4_BaseFeeResidual ==
  /\ (subpool = BaseFee) <=>
       ( /\ Has(state, ENOUGH_FEE_CAP_PROTOCOL)
         /\ \/ ~Has(state, NO_NONCE_GAPS)
            \/ ~Has(state, ENOUGH_BALANCE)
            \/ ~Has(state, NOT_TOO_MUCH_GAS)
            \/ /\ Has(state, NO_NONCE_GAPS)
               /\ Has(state, ENOUGH_BALANCE)
               /\ Has(state, NOT_TOO_MUCH_GAS)
               /\ ~Has(state, ENOUGH_FEE_CAP_BLOCK)
               /\ ~Has(state, IS_LOCAL) )
  /\ state \in {32, 60} => subpool = BaseFee

C4_Witness ==
  /\ state = 32
  /\ subpool = BaseFee

\* C5: for two different sub-pools exactly one direction is a promotion,
\* and for equal sub-pools neither direction is.
C5_PromotionSymmetry ==
  /\ subpool # prevPool => (promoted # demoted)
  /\ subpool = prevPool => (~promoted /\ ~demoted)

C5_Witness ==
  /\ op = "insert"
  /\ prevPool = Queued
  /\ subpool = Pending
  /\ promoted
  /\ ~demoted

\* C6: setting any one named bit on flags classified Pending leaves them
\* classified Pending.
C6_PendingStaysPending ==
  (op = "insert" /\ arg \in NamedFlags /\ prevPool = Pending) => subpool = Pending

C6_Witness ==
  /\ op = "insert"
  /\ arg = IS_LOCAL
  /\ prev = 61
  /\ prevPool = Pending
  /\ subpool = Pending

\* C7: when the balance covers exactly the first two transactions (which are
\* in BaseFee or Pending), the third and only the third lacks ENOUGH_BALANCE
\* and the third is classified Queued.
C7_ThirdIsQueued ==
  ( /\ idx = 3
    /\ txPool[1] \in {BaseFee, Pending}
    /\ txPool[2] \in {BaseFee, Pending} )
  => ( /\ Has(txState[1], ENOUGH_BALANCE)
       /\ Has(txState[2], ENOUGH_BALANCE)
       /\ ~Has(txState[3], ENOUGH_BALANCE)
       /\ txPool[3] = Queued )

\* C8: every flag combination derives exactly one of the three sub-pools,
\* and the three classes partition the 64 values.
C8_Totality ==
  /\ state \in 0..63
  /\ subpool \in SubPools
  /\ Cardinality({p \in SubPools : p = subpool}) = 1
  /\ LET class(p) == {v \in TxStates : SubPoolFrom(v) = p}
     IN /\ class(Queued) \cup class(Pending) \cup class(BaseFee) = 0..63
        /\ class(Queued) \cap class(Pending) = {}
        /\ class(Queued) \cap class(BaseFee) = {}
        /\ class(Pending) \cap class(BaseFee) = {}

C8_Witness ==
  /\ state = 63
  /\ subpool = Pending
  /\ prevPool = BaseFee

\* C9: the default state has no bit set; after s |= F for a named flag F,
\* intersects(F) holds and every other named bit is as before; the state
\* stays within 0..63.
C9_UnionSetsOnlyThatBit ==
  /\ op = "init" => (state = 0 /\ \A f \in NamedFlags : ~intersects(state, f))
  /\ (op = "insert" /\ arg \in NamedFlags) =>
       /\ intersects(state, arg)
       /\ \A g \in NamedFlags \ {arg} : intersects(state, g) = intersects(prev, g)
  /\ state \in 0..63

C9_Witness ==
  /\ op = "insert"
  /\ arg = NO_NONCE_GAPS
  /\ prev = 16
  /\ state = 16

\* C10: a step that only sets bits is never reported as a demotion and a
\* step that only clears bits is never reported as a promotion.
C10_MonotoneClassification ==
  /\ op = "insert" => ~demoted
  /\ op = "remove" => ~promoted

====
